---- MODULE Spec2Model ----
(***************************************************************************)
(* Model of src/src/image_processor.rs: the loader (load_images with       *)
(* scale_to_standard_width and add_white_border), the collage builder      *)
(* (create_collage), the placement engine (place_image) and the            *)
(* empty-space tester (is_empty_space), run as process_images runs them.   *)
(*                                                                         *)
(* An image is a record [width, height, px] where px maps <<x, y>> to an   *)
(* RGB triple.  The alpha channel is left out: the pictures are opaque     *)
(* and every image handed to create_collage was blended onto an opaque     *)
(* white buffer by add_white_border, so alpha is 255 everywhere, and the   *)
(* code only ever tests channels 0..2.  All coordinates stay far below     *)
(* 2^32, so the u32 arithmetic of the code never wraps in the modelled     *)
(* range.                                                                  *)
(*                                                                         *)
(* panic is the message of the panic that ended the program, "" if none.   *)
(* prev, last, grows and placed are history variables: the canvas before   *)
(* the last invocation of place_image, what that invocation did, the       *)
(* number of growth steps of the running placement and the positions of    *)
(* the rectangles copied so far.                                           *)
(***************************************************************************)
EXTENDS Integers, Sequences, FiniteSets, TLC

VARIABLES input, images, collage, cur, pc, panic, count, prev, last, grows, placed

vars == <<input, images, collage, cur, pc, panic, count, prev, last, grows, placed>>

\* ---------------------------------------------------------------- bounds
\* the standard width and the border of load_images, scaled down from 500
\* and 5 pixels
StandardWidth == 4
BorderSize == 1
\* the number of entries of the directory
MaxEntries == 3
\* the number of growth steps one placement may take in the model
MaxGrow == 4

\* ---------------------------------------------------------------- pixels
Black == <<0, 0, 0>>
White == <<255, 255, 255>>
Red == <<255, 0, 0>>

\* image_processor.rs:131 and :220, the test `pixel[0] != 0 || pixel[1] != 0 || pixel[2] != 0`
NonBlack(pixel) == pixel[1] # 0 \/ pixel[2] # 0 \/ pixel[3] # 0

\* image_processor.rs:145
IsWhite(pixel) == pixel[1] = 255 /\ pixel[2] = 255 /\ pixel[3] = 255

NoImage == [width |-> 0, height |-> 0, px |-> << >>]

get_pixel(img, x, y) == img.px[<<x, y>>]

Area(img) == img.width * img.height

\* DynamicImage::new_rgb8: a zero-initialised (black) buffer
new_rgb8(w, h) ==
    [width |-> w, height |-> h,
     px |-> [p \in (0 .. w - 1) \X (0 .. h - 1) |-> Black]]

\* GenericImage::copy_from(&other, x, y): every pixel of other is put at
\* (i + x, k + y); the callers only use it where other fits
copy_from(dst, other, x, y) ==
    [dst EXCEPT !.px =
        [p \in DOMAIN dst.px |->
            IF /\ p[1] >= x /\ p[1] < x + other.width
               /\ p[2] >= y /\ p[2] < y + other.height
            THEN other.px[<<p[1] - x, p[2] - y>>]
            ELSE dst.px[p]]]

\* imageops::overlay(bottom, top, x, y) blends top over bottom; the
\* pictures are opaque, so every covered pixel becomes the pixel of top
overlay(bottom, top, x, y) == copy_from(bottom, top, x, y)

\* a decoded picture of one colour
SolidImage(w, h, fill) ==
    [width |-> w, height |-> h,
     px |-> [p \in (0 .. w - 1) \X (0 .. h - 1) |-> fill]]

\* imageops::resize(&img, nwidth, nheight, Lanczos3) on a picture of one
\* colour: the filter weights are normalised, so every pixel of the result
\* has that colour; a result of height 0 has no pixel
resize(img, nwidth, nheight) ==
    [width |-> nwidth, height |-> nheight,
     px |-> [p \in (0 .. nwidth - 1) \X (0 .. nheight - 1) |-> img.px[<<0, 0>>]]]

\* new_height = (standard_width as f64 / current_width as f64 *
\* current_height as f64) as u32: the product truncated.  The widths of the
\* model's pictures are powers of two, so the quotient and the product are
\* exact in f64 and the truncation is the integer division
scale_to_standard_width(img, standard_width) ==
    LET new_height == (standard_width * img.height) \div img.width
    IN  resize(img, standard_width, new_height)

\* add_white_border: a white buffer of the enlarged size with the picture
\* overlaid at (border_size, border_size)
add_white_border(img, border_size) ==
    LET new_width == img.width + 2 * border_size
        new_height == img.height + 2 * border_size
        new_img == [width |-> new_width, height |-> new_height,
                    px |-> [p \in (0 .. new_width - 1) \X (0 .. new_height - 1) |-> White]]
    IN  overlay(new_img, img, border_size, border_size)

RECURSIVE SeqsUpTo(_, _)
SeqsUpTo(S, n) ==
    IF n = 0 THEN {<< >>}
    ELSE LET shorter == SeqsUpTo(S, n - 1)
         IN  shorter \cup {Append(s, e) : s \in {t \in shorter : Len(t) = n - 1}, e \in S}

\* ---------------------------------------------------------- the directory
\* the picture files: width, height and colour of the decoded picture;
\* at the standard width 4 they scale to the heights 11, 5 (from 5.5),
\* 5, 5, 2 and 0 (from 0.5)
Pictures ==
    {SolidImage(4, 11, Red), SolidImage(8, 11, Red), SolidImage(8, 10, Red),
     SolidImage(8, 11, Black), SolidImage(2, 1, White), SolidImage(8, 1, Red)}

\* an entry of the directory: it can be read or not, it is a file or not,
\* it has an extension, and image::open decodes it or fails
DirEntry(ok, is_file, ext, decodes, picture) ==
    [ok |-> ok, is_file |-> is_file, ext |-> ext, decodes |-> decodes, picture |-> picture]

DirEntries ==
    {DirEntry(TRUE, TRUE, "png", TRUE, p) : p \in Pictures}
        \cup {DirEntry(TRUE, TRUE, "txt", FALSE, NoImage),
              DirEntry(TRUE, FALSE, "", FALSE, NoImage),
              DirEntry(FALSE, FALSE, "", FALSE, NoImage)}

\* read_dir(dir): the listing of the directory, or an error for a
\* directory that cannot be read
NoListing == [ok |-> FALSE, entries |-> << >>]

Directories ==
    {NoListing} \cup {[ok |-> TRUE, entries |-> e] : e \in SeqsUpTo(DirEntries, MaxEntries)}

\* filter: Option<String>, None as the empty sequence
Filters == {<< >>, <<"png">>}

\* path.is_file() && (filter.is_none() || extension == filter.unwrap())
Selected(entry, filter) ==
    entry.is_file /\ (filter = << >> \/ entry.ext = filter[1])

\* the closure of filter_map and collect: the entries in directory order,
\* up to the first one that panics
RECURSIVE filter_map(_, _, _)
filter_map(entries, filter, acc) ==
    IF entries = << >> THEN [panic |-> "", images |-> acc]
    ELSE LET entry == Head(entries)
         IN  IF ~entry.ok
             THEN [panic |-> "Failed to read entry", images |-> << >>]
             ELSE IF ~Selected(entry, filter)
             THEN filter_map(Tail(entries), filter, acc)
             ELSE IF ~entry.decodes
             THEN [panic |-> "Failed to open image", images |-> << >>]
             ELSE filter_map(Tail(entries), filter,
                     Append(acc, add_white_border(
                         scale_to_standard_width(entry.picture, StandardWidth), BorderSize)))

load_images(dir, filter) ==
    IF ~dir.ok THEN [panic |-> "Failed to read directory", images |-> << >>]
    ELSE filter_map(dir.entries, filter, << >>)

\* ------------------------------------------------------- is_empty_space
\* the footprint is clipped to the canvas, then every pixel of it is tested
is_empty_space(c, x, y, width, height) ==
    LET w == IF x + width > c.width THEN c.width - x ELSE width
        h == IF y + height > c.height THEN c.height - y ELSE height
    IN  \A j \in y .. (y + h - 1) : \A i \in x .. (x + w - 1) :
            ~NonBlack(get_pixel(c, i, j))

\* ------------------------------------------------------------ the sort
\* variant: an image goes in front of the images of its own area
RECURSIVE InsertByArea_strict(_, _)
InsertByArea_strict(sorted, img) ==
    IF sorted = << >> THEN <<img>>
    ELSE IF Area(Head(sorted)) > Area(img)
         THEN <<Head(sorted)>> \o InsertByArea_strict(Tail(sorted), img)
         ELSE <<img>> \o sorted

\* images.sort_by(|a, b| area_b.cmp(&area_a)): a stable sort by descending
\* area, here as an insertion sort
RECURSIVE InsertByArea(_, _)
InsertByArea(sorted, img) ==
    IF sorted = << >> THEN <<img>>
    ELSE IF Area(Head(sorted)) >= Area(img)
         THEN <<Head(sorted)>> \o InsertByArea(Tail(sorted), img)
         ELSE <<img>> \o sorted

RECURSIVE sort_by(_)
sort_by(s) ==
    IF s = << >> THEN << >>
    ELSE InsertByArea(sort_by(SubSeq(s, 1, Len(s) - 1)), s[Len(s)])

\* ------------------------------------------------- the scan of place_image
saturating_sub(a, b) == IF a >= b THEN a - b ELSE 0

neighbors(x, y) ==
    << <<saturating_sub(x, 1), y>>, <<x + 1, y>>,
       <<x, saturating_sub(y, 1)>>, <<x, y + 1>> >>

\* variant: the neighbour above is not looked at
boundary_noabove(c, x, y) ==
    \E n \in {1, 2, 4} :
        LET nx == neighbors(x, y)[n][1]
            ny == neighbors(x, y)[n][2]
        IN  /\ nx < c.width /\ ny < c.height
            /\ IsWhite(get_pixel(c, nx, ny))

boundary(c, x, y) ==
    \E n \in 1 .. 4 :
        LET nx == neighbors(x, y)[n][1]
            ny == neighbors(x, y)[n][2]
        IN  /\ nx < c.width /\ ny < c.height
            /\ IsWhite(get_pixel(c, nx, ny))

\* variant: the threshold is the width of the image, not its area
ScanInit_width(c, n) ==
    [kind |-> "scan", min_width |-> c.width, min_height |-> c.height,
     min_scope |-> n.width, found |-> FALSE, x |-> 0, y |-> 0]

ScanInit(c, n) ==
    [kind |-> "scan", min_width |-> c.width, min_height |-> c.height,
     min_scope |-> n.width * n.height, found |-> FALSE, x |-> 0, y |-> 0]

\* lines 158-165: the canvas size that takes the image at anchor (x, y)
tmp_width(c, n, x) ==
    IF x + n.width + 1 < c.width THEN c.width ELSE x + n.width + 1

\* variant: the recorded height stops one row short of the footprint
tmp_height_short(c, n, y) ==
    IF y + n.height - 1 < c.height THEN c.height ELSE y + n.height - 1

tmp_height(c, n, y) ==
    IF y + n.height + 1 < c.height THEN c.height ELSE y + n.height + 1

\* variant: every pixel next to a white pixel is taken, black or not,
\* its footprint empty or not
Candidate_unchecked(c, n, x, y) == boundary(c, x, y)

\* lines 130-153: the pixels whose iteration is not cut short by a
\* `continue` or a failed is_empty_space: black, next to a white pixel,
\* with an empty (clipped) footprint
Candidate(c, n, x, y) ==
    /\ ~NonBlack(get_pixel(c, x, y))
    /\ boundary(c, x, y)
    /\ is_empty_space(c, x, y, n.width, n.height)

Candidates(c, n) ==
    {p \in (0 .. c.width - 1) \X (0 .. c.height - 1) : Candidate(c, n, p[1], p[2])}

\* variant: the image is copied at the pixel whether it fits or not
ScanPixel_nofit(c, n, x, y, acc) == [acc EXCEPT !.kind = "placed", !.x = x, !.y = y]

\* lines 154-172: the rest of the iteration at such a pixel (x, y)
ScanPixel(c, n, x, y, acc) ==
    IF x + n.width <= c.width /\ y + n.height <= c.height
    THEN [acc EXCEPT !.kind = "placed", !.x = x, !.y = y]
    ELSE LET tw == tmp_width(c, n, x)
             th == tmp_height(c, n, y)
             scope_delta == (th * tw) - (c.width * c.height)
         IN  IF scope_delta < acc.min_scope
             THEN [acc EXCEPT !.min_width = tw, !.min_height = th,
                              !.found = TRUE, !.min_scope = scope_delta,
                              !.x = x, !.y = y]
             ELSE acc

\* for y in 0..height { for x in 0..width { ... } }: the position of
\* pixel (x, y) in the order of the scan
ScanIndex(c, x, y) == y * c.width + x

ScanFirst(c, todo) ==
    CHOOSE p \in todo :
        \A q \in todo : ScanIndex(c, p[1], p[2]) <= ScanIndex(c, q[1], q[2])

\* the two loops over the pixels still to visit, up to the early return;
\* the values of one iteration are bound (b) before the next one runs
RECURSIVE ScanFrom(_, _, _, _)
ScanFrom(c, n, todo, acc) ==
    IF todo = {} \/ acc.kind = "placed" THEN acc
    ELSE CHOOSE r \in {ScanFrom(b[1], b[2], b[3], b[4]) :
            b \in {<<c, n, todo \ {p}, ScanPixel(c, n, p[1], p[2], acc)>> :
                      p \in {ScanFirst(c, todo)}}} : TRUE

\* the outcome of one invocation of place_image before it recurses
ScanOutcome(a) ==
    IF a.kind = "placed" THEN a
    ELSE IF a.found THEN [a EXCEPT !.kind = "found"]
    ELSE [a EXCEPT !.kind = "fallback"]

Scan(c, n) ==
    CHOOSE r \in {ScanOutcome(a) :
            a \in {ScanFrom(b[1], b[2], b[3], b[4]) :
                      b \in {<<c, n, Candidates(c, n), ScanInit(c, n)>>}}} : TRUE

\* variant: the new canvas has the size of the old one
FallbackCanvas_same(c, n) == new_rgb8(c.width, c.height)

\* the new, empty canvas of the fallback branch
FallbackCanvas(c, n) ==
    IF c.width > c.height
    THEN new_rgb8(c.width, c.height + n.height)
    ELSE new_rgb8(c.width + n.width, c.height)

\* variant: the old canvas is not copied
GrowCanvas_nocopy(new_collage, c) == new_collage

\* new_collage.copy_from(&collage, 0, 0): the old canvas moves into the new one
GrowCanvas(new_collage, c) == copy_from(new_collage, c, 0, 0)

\* ---------------------------------------------------------------- state
NoStep == [kind |-> "none", x |-> 0, y |-> 0]

Init ==
    /\ input = << >>
    /\ images = << >>
    /\ collage = NoImage
    /\ cur = NoImage
    /\ pc = "load"
    /\ panic = ""
    /\ count = 1
    /\ prev = NoImage
    /\ last = NoStep
    /\ grows = 0
    /\ placed = << >>

\* process_images: load_images reads the directory, scales and borders the
\* selected pictures in directory order and hands them to create_collage,
\* or it panics
LoadImages ==
    /\ pc = "load"
    /\ \E dir \in Directories, filter \in Filters :
           LET images_vec == load_images(dir, filter)
           IN  IF images_vec.panic # ""
               THEN /\ pc' = "panicked"
                    /\ panic' = images_vec.panic
                    /\ UNCHANGED <<input, images>>
               ELSE /\ input' = images_vec.images
                    /\ images' = input'
                    /\ pc' = "start"
                    /\ UNCHANGED panic
    /\ UNCHANGED <<collage, cur, count, prev, last, grows, placed>>

\* create_collage up to the loop: sort, then images.remove(0)
Seed ==
    /\ pc = "start"
    /\ LET sorted == sort_by(images)
       IN  IF sorted = << >>
           THEN /\ pc' = "panicked"
                /\ panic' = "removal index (is 0) should be < len (is 0)"
                /\ UNCHANGED <<images, collage, placed>>
           ELSE /\ collage' = Head(sorted)
                /\ images' = Tail(sorted)
                /\ placed' = <<[x |-> 0, y |-> 0, img |-> Head(sorted)]>>
                /\ pc' = "loop"
                /\ UNCHANGED panic
    /\ UNCHANGED <<input, cur, count, prev, last, grows>>

\* `for img in images`: the next image enters place_image
NextImage ==
    /\ pc = "loop"
    /\ images # << >>
    /\ cur' = Head(images)
    /\ images' = Tail(images)
    /\ grows' = 0
    /\ pc' = "place"
    /\ UNCHANGED <<input, collage, panic, count, prev, last, placed>>

\* place_image finds a fitting anchor, copies the image and returns;
\* the loop body then saves the snapshot and counts
Place(r) ==
    /\ r.kind = "placed"
    /\ collage' = copy_from(collage, cur, r.x, r.y)
    /\ last' = [kind |-> "placed", x |-> r.x, y |-> r.y]
    /\ placed' = Append(placed, [x |-> r.x, y |-> r.y, img |-> cur])
    /\ count' = count + 1
    /\ pc' = "loop"
    /\ UNCHANGED grows

\* place_image recorded a growth candidate: grow to it and recurse
GrowFound(r) ==
    /\ r.kind = "found"
    /\ grows < MaxGrow
    /\ collage' = GrowCanvas(new_rgb8(r.min_width, r.min_height), collage)
    /\ last' = [kind |-> "found", x |-> r.x, y |-> r.y]
    /\ grows' = grows + 1
    /\ UNCHANGED <<pc, count, placed>>

\* place_image recorded nothing: grow by the image's height or width and recurse
GrowFallback(r) ==
    /\ r.kind = "fallback"
    /\ grows < MaxGrow
    /\ collage' = GrowCanvas(FallbackCanvas(collage, cur), collage)
    /\ last' = [kind |-> "fallback", x |-> 0, y |-> 0]
    /\ grows' = grows + 1
    /\ UNCHANGED <<pc, count, placed>>

\* one invocation of place_image: one scan, then it returns or it grows
\* and recurses
PlaceImage ==
    /\ pc = "place"
    /\ \E r \in {Scan(collage, cur)} :
           Place(r) \/ GrowFound(r) \/ GrowFallback(r)
    /\ prev' = collage
    /\ UNCHANGED <<input, images, cur, panic>>

\* the loop is over: create_collage returns the collage
Return ==
    /\ pc = "loop"
    /\ images = << >>
    /\ pc' = "done"
    /\ UNCHANGED <<input, images, collage, cur, panic, count, prev, last, grows, placed>>

Next == LoadImages \/ Seed \/ NextImage \/ PlaceImage \/ Return

Spec == Init /\ [][Next]_vars

\* the program is sequential: a running call of place_image keeps running
FairSpec == Spec /\ WF_vars(PlaceImage)

\* ------------------------------------------------ vocabulary of the claims
Max(a, b) == IF a >= b THEN a ELSE b

Pixels(c) == (0 .. c.width - 1) \X (0 .. c.height - 1)

InCanvas(c, i, j) == i >= 0 /\ i < c.width /\ j >= 0 /\ j < c.height

IsBackground(c, i, j) == c.px[<<i, j>>] = Black

\* a background pixel with a white pixel left, right, above or below it
Anchors(c) ==
    {p \in Pixels(c) :
        /\ IsBackground(c, p[1], p[2])
        /\ \E d \in {<<-1, 0>>, <<1, 0>>, <<0, -1>>, <<0, 1>>} :
              /\ InCanvas(c, p[1] + d[1], p[2] + d[2])
              /\ c.px[<<p[1] + d[1], p[2] + d[2]>>] = White}

Footprint(p, n) == (p[1] .. p[1] + n.width - 1) \X (p[2] .. p[2] + n.height - 1)

FitsIn(c, p, n) == p[1] + n.width <= c.width /\ p[2] + n.height <= c.height

\* the part of the footprint that lies on the canvas is background
ClippedEmpty(c, p, n) ==
    \A q \in Footprint(p, n) : InCanvas(c, q[1], q[2]) => IsBackground(c, q[1], q[2])

FitAnchors(c, n) == {p \in Anchors(c) : ClippedEmpty(c, p, n) /\ FitsIn(c, p, n)}

GrowAnchors(c, n) == {p \in Anchors(c) : ClippedEmpty(c, p, n) /\ ~FitsIn(c, p, n)}

RowMajorBefore(p, q) == p[2] < q[2] \/ (p[2] = q[2] /\ p[1] <= q[1])

RowMajorFirst(S) == CHOOSE p \in S : \A q \in S : RowMajorBefore(p, q)

GrowSize(c, p, n) ==
    <<Max(p[1] + n.width + 1, c.width), Max(p[2] + n.height + 1, c.height)>>

GrowDelta(c, p, n) == GrowSize(c, p, n)[1] * GrowSize(c, p, n)[2] - c.width * c.height

\* the anchor of least delta, the first one in row-major order on ties
BestGrowAnchor(c, n) ==
    LET least == {p \in GrowAnchors(c, n) :
                    \A q \in GrowAnchors(c, n) : GrowDelta(c, p, n) <= GrowDelta(c, q, n)}
    IN  RowMajorFirst(least)

Dims(c) == <<c.width, c.height>>

\* the last step was a growth step of the call that is still running
Grew == pc = "place" /\ last.kind \in {"found", "fallback"}

\* the last step placed cur and returned to the loop
JustPlaced == pc = "loop" /\ last.kind = "placed"

\* prev, last and cur describe one scan of place_image and its outcome
Stepped == Grew \/ JustPlaced

RECURSIVE SumAreas(_)
SumAreas(s) == IF s = << >> THEN 0 ELSE Area(Head(s)) + SumAreas(Tail(s))

PlacedImages == [i \in 1 .. Len(placed) |-> placed[i].img]

\* create_collage has taken its seed
Started == pc \notin {"load", "start", "panicked"}

\* load_images has returned and create_collage has run up to its loop
Collaging == pc \notin {"load", "start"} /\ panic \notin
    {"Failed to read directory", "Failed to read entry", "Failed to open image"}

\* the order in which create_collage takes the images
Order ==
    PlacedImages \o (IF pc = "place" THEN <<cur>> ELSE << >>) \o images

NoBlackInput ==
    \A k \in 1 .. Len(input) : \A p \in DOMAIN input[k].px : NonBlack(input[k].px[p])

PlacedFootprint(i) == Footprint(<<placed[i].x, placed[i].y>>, placed[i].img)

\* ------------------------------------------------------------- the claims

\* C1: when no input image has a black pixel, the footprints of any two
\* placed rectangles are disjoint after every step, and each footprint
\* still shows the pixels of its rectangle (nothing was copied over it).
C1_NoOverlap ==
    NoBlackInput =>
        /\ \A i, j \in 1 .. Len(placed) :
              i # j => PlacedFootprint(i) \cap PlacedFootprint(j) = {}
        /\ \A i \in 1 .. Len(placed) : \A q \in PlacedFootprint(i) :
              /\ InCanvas(collage, q[1], q[2])
              /\ collage.px[q] = placed[i].img.px[<<q[1] - placed[i].x, q[2] - placed[i].y>>]

C1_Witness ==
    /\ NoBlackInput
    /\ Len(placed) = 3
    /\ JustPlaced
    /\ Anchors(prev) # FitAnchors(prev, cur)

\* C2: after a growth step (minimal-delta or fallback) every pixel of the
\* old canvas has its old colour at its old coordinate and every pixel
\* outside the old canvas is black.
C2_ContentPreserved ==
    Grew =>
        /\ collage.width >= prev.width /\ collage.height >= prev.height
        /\ \A p \in Pixels(collage) :
              IF InCanvas(prev, p[1], p[2])
              THEN collage.px[p] = prev.px[p]
              ELSE collage.px[p] = Black

C2_Witness ==
    /\ Grew
    /\ last.kind = "found"
    /\ Len(placed) = 2
    /\ Area(collage) > Area(prev)

\* C3: an empty input list ends in an explicit EmptyInput error, never in
\* the removal of element zero of the empty list.
C3_EmptyInputReported ==
    (Collaging /\ input = << >>) => (pc = "EmptyInput" /\ panic = "")

\* C4: the images are taken in descending order of area, images of equal
\* area in their input order; the seed is the first image of largest area,
\* unchanged at the origin, and a single image is the whole result.
C4_InsertionOrder ==
    Started =>
        /\ Len(Order) = Len(input)
        /\ \A i, j \in 1 .. Len(Order) : i < j => Area(Order[i]) >= Area(Order[j])
        /\ \A k \in 1 .. Len(input) :
              LET SameArea(e) == Area(e) = Area(input[k])
              IN  SelectSeq(Order, SameArea) = SelectSeq(input, SameArea)
        /\ LET big == {k \in 1 .. Len(input) :
                          \A m \in 1 .. Len(input) : Area(input[k]) >= Area(input[m])}
               first == CHOOSE k \in big : \A m \in big : k <= m
           IN  /\ placed[1] = [x |-> 0, y |-> 0, img |-> input[first]]
               /\ last.kind = "none" => collage = input[first]
        /\ (Len(input) = 1 /\ pc = "done") => collage = input[1]

C4_Witness ==
    /\ pc = "done"
    /\ Len(input) = 3
    /\ Area(input[1]) < Area(input[2])
    /\ Area(input[2]) = Area(input[3])
    /\ input[2] # input[3]

\* C5: every call of place_image returns after finitely many growth steps
\* with the image placed.
C5_Termination == (pc = "place") ~> (pc = "loop" /\ last.kind = "placed")

C5_Witness ==
    /\ JustPlaced
    /\ grows = 1
    /\ Len(placed) = 3
    /\ FitAnchors(prev, cur) # {}

\* C6: when a scan finds no fitting anchor but some anchor whose clipped
\* footprint is empty, the canvas grows to the size computed for the anchor
\* of least area delta (the first in row-major order on ties).
C6_MinimalGrowth ==
    (Grew /\ GrowAnchors(prev, cur) # {}) =>
        Dims(collage) = GrowSize(prev, BestGrowAnchor(prev, cur), cur)

\* C7 as stated: the fallback branch is taken only on a canvas without
\* any candidate anchor, and never once a padded rectangle (the seed
\* included) is on the canvas.
C7_FallbackOnlyWithoutAnchors ==
    last.kind = "fallback" => (Anchors(prev) = {} /\ Len(placed) = 0)

\* C7 amended: the fallback branch is taken exactly when the scan neither
\* placed the image nor recorded a growth candidate, that is when every
\* candidate anchor has a non-empty clipped footprint or needs an area
\* delta of at least w * h; it then extends the height by h if the canvas
\* is wider than high, else the width by w.
C7_FallbackPrecondition ==
    Stepped =>
        /\ last.kind = "fallback" <=>
              \A p \in Anchors(prev) :
                  \/ ~ClippedEmpty(prev, p, cur)
                  \/ /\ ~FitsIn(prev, p, cur)
                     /\ GrowDelta(prev, p, cur) >= cur.width * cur.height
        /\ last.kind = "fallback" =>
              Dims(collage) = IF prev.width > prev.height
                              THEN <<prev.width, prev.height + cur.height>>
                              ELSE <<prev.width + cur.width, prev.height>>

C7_Witness ==
    /\ Grew
    /\ last.kind = "fallback"
    /\ GrowAnchors(prev, cur) # {}
    /\ Len(placed) >= 2

\* C8: right after a growth to the size of a recorded candidate (x, y),
\* that anchor is still a candidate anchor, its whole footprint is
\* background inside the grown canvas, and the retry places the image.
C8_RetrySucceeds ==
    last.kind = "found" =>
        /\ <<last.x, last.y>> \in FitAnchors(collage, cur)
        /\ Scan(collage, cur).kind = "placed"

C8_Witness ==
    /\ Grew
    /\ last.kind = "found"
    /\ <<last.x, last.y>> \in GrowAnchors(prev, cur)

\* C9: when some candidate anchor has an empty footprint inside the
\* canvas, the scan keeps the canvas size, copies the image to the first
\* such anchor in row-major order and changes no pixel outside it.
C9_FirstFitWins ==
    (Stepped /\ FitAnchors(prev, cur) # {}) =>
        LET p == RowMajorFirst(FitAnchors(prev, cur))
        IN  /\ last = [kind |-> "placed", x |-> p[1], y |-> p[2]]
            /\ Dims(collage) = Dims(prev)
            /\ \A q \in Pixels(collage) :
                  collage.px[q] = IF q \in Footprint(p, cur)
                                  THEN cur.px[<<q[1] - p[1], q[2] - p[2]>>]
                                  ELSE prev.px[q]

C9_Witness ==
    /\ JustPlaced
    /\ Cardinality(FitAnchors(prev, cur)) >= 2
    /\ \E q \in Pixels(prev) \ Footprint(<<last.x, last.y>>, cur) : ~IsBackground(prev, q[1], q[2])

\* C10 as stated: the canvas area never exceeds the sum of the areas of
\* all input rectangles.
C10_AreaUpperBound ==
    Started => Area(collage) <= SumAreas(input)

\* C10 amended: for input without black pixels the canvas area is at every
\* step at least the sum of the areas of the rectangles placed so far, and
\* every growth step strictly increases it.
C10_AreaLowerBound ==
    (Started /\ NoBlackInput) =>
        /\ Area(collage) >= SumAreas(PlacedImages)
        /\ Grew => Area(collage) > Area(prev)

C10_Witness ==
    /\ pc = "done"
    /\ Len(placed) >= 3
    /\ Area(collage) > SumAreas(input)
====
